---------------------------- MODULE Spec2Model ----------------------------
(***************************************************************************)
(* A model of compiler_project/simple_lexer.py: SimpleRegexLexer.tokenize  *)
(* (the ordered-pattern scanner), find_problems (the diagnostics pass) and *)
(* combine_function_calls (the call merger).                               *)
(*                                                                         *)
(* Source text is a sequence of characters, each character a one-character *)
(* string; U00E9 stands for a non-ASCII letter, which Python's \w matches   *)
(* and [a-zA-Z_] does not.  Offsets into the text are 0-based as in Python. *)
(***************************************************************************)
EXTENDS Integers, Sequences, FiniteSets, TLC

(***************************************************************************)
(* Bounds of the model.                                                    *)
(***************************************************************************)
MaxWords == 3
MaxFairWords == 2
MaxTokens == 7

(***************************************************************************)
(* Characters and the character classes of Python's re module.             *)
(***************************************************************************)
UnicodeLetter == "U00E9"

Digits == {"0","1","2","3","4","5","6","7","8","9"}

OctalDigits == {"0","1","2","3","4","5","6","7"}

BinaryDigits == {"0","1"}

HexDigits == Digits \cup {"a","b","c","d","e","f","A","B","C","D","E","F"}

AsciiLetters ==
    {"a","b","c","d","e","f","g","h","i","j","k","l","m","n","o","p","q","r",
     "s","t","u","v","w","x","y","z","A","B","C","D","E","F","G","H","I","J",
     "K","L","M","N","O","P","Q","R","S","T","U","V","W","X","Y","Z"}

IdentStartChars == AsciiLetters \cup {"_"}

WordChars == AsciiLetters \cup Digits \cup {"_", UnicodeLetter}

SpaceChars == {" ", "\t", "\n", "\r", "\f"}

Operator1Chars == {"+","-","*","/","%","=","<",">","!","&","|","~","^"}

SymbolChars == {"{","}","(",")","[","]",";",",",".",":","?"}

Ch(s, k) == s[k + 1]

InText(s, k) == k >= 0 /\ k < Len(s)

IsAt(s, k, c) == InText(s, k) /\ Ch(s, k) = c

IsIn(s, k, S) == InText(s, k) /\ Ch(s, k) \in S

\* The number of consecutive characters from offset p that lie in S: a greedy
\* S* from p.
RECURSIVE Span(_, _, _)
Span(s, p, S) ==
    IF p < Len(s) /\ s[p + 1] \in S THEN 1 + Span(s, p + 1, S) ELSE 0

\* The number of consecutive characters from offset p that lie outside S: a
\* greedy [^S]* from p.
RECURSIVE SpanNot(_, _, _)
SpanNot(s, p, S) ==
    IF p < Len(s) /\ s[p + 1] \notin S THEN 1 + SpanNot(s, p + 1, S) ELSE 0

\* Whether the literal w occurs in s at offset p.
LitAt(s, p, w) ==
    /\ p >= 0
    /\ p + Len(w) <= Len(s)
    /\ \A j \in 1..Len(w) : s[p + j] = w[j]

\* s.find(w, p): the first offset at or after p where w occurs, -1 when none.
RECURSIVE FindLit(_, _, _)
FindLit(s, p, w) ==
    IF p + Len(w) > Len(s) THEN -1
    ELSE IF LitAt(s, p, w) THEN p
    ELSE FindLit(s, p + 1, w)

\* Python's `w in s` for strings.
Contains(s, w) == FindLit(s, 0, w) >= 0

\* \b at offset p: exactly one side is a word character.
WordBoundary(s, p) == IsIn(s, p - 1, WordChars) # IsIn(s, p, WordChars)

\* ^ under re.MULTILINE.
LineStartAt(s, p) == p = 0 \/ IsAt(s, p - 1, "\n")

\* The length of the first alternative of alts (in order) that occurs at p and,
\* when wantBoundary, is followed by \b; 0 when none does.
RECURSIVE FirstAltFrom(_, _, _, _, _)
FirstAltFrom(s, p, alts, wantBoundary, a) ==
    IF a > Len(alts) THEN 0
    ELSE IF LitAt(s, p, alts[a])
            /\ (wantBoundary => WordBoundary(s, p + Len(alts[a])))
    THEN Len(alts[a])
    ELSE FirstAltFrom(s, p, alts, wantBoundary, a + 1)

FirstAlt(s, p, alts, wantBoundary) == FirstAltFrom(s, p, alts, wantBoundary, 1)

(***************************************************************************)
(* The alternations of the patterns.                                       *)
(***************************************************************************)
KeywordWords ==
    << <<"i","f">>,
       <<"e","l","s","e">>,
       <<"f","o","r">>,
       <<"w","h","i","l","e">>,
       <<"d","o">>,
       <<"r","e","t","u","r","n">>,
       <<"c","l","a","s","s">>,
       <<"u","s","i","n","g">>,
       <<"s","t","r","u","c","t">>,
       <<"p","u","b","l","i","c">>,
       <<"n","a","m","e","s","p","a","c","e">>,
       <<"p","r","i","v","a","t","e">>,
       <<"p","r","o","t","e","c","t","e","d">>,
       <<"s","t","a","t","i","c">>,
       <<"c","o","n","s","t">>,
       <<"v","i","r","t","u","a","l">>,
       <<"n","e","w">>,
       <<"d","e","l","e","t","e">>,
       <<"s","i","z","e","o","f">> >>

TypeWords ==
    << <<"i","n","t">>,
       <<"f","l","o","a","t">>,
       <<"d","o","u","b","l","e">>,
       <<"c","h","a","r">>,
       <<"v","o","i","d">>,
       <<"b","o","o","l">>,
       <<"l","o","n","g">>,
       <<"s","h","o","r","t">>,
       <<"s","i","g","n","e","d">>,
       <<"u","n","s","i","g","n","e","d">> >>

BooleanWords ==
    << <<"t","r","u","e">>,
       <<"f","a","l","s","e">> >>

NullWords ==
    << <<"n","u","l","l","p","t","r">>,
       <<"N","U","L","L">> >>

DirectiveWords ==
    << <<"d","e","f","i","n","e">>,
       <<"u","n","d","e","f">>,
       <<"i","f","d","e","f">>,
       <<"i","f","n","d","e","f">>,
       <<"e","n","d","i","f">>,
       <<"p","r","a","g","m","a">>,
       <<"e","r","r","o","r">>,
       <<"w","a","r","n","i","n","g">>,
       <<"e","l","i","f">>,
       <<"e","l","s","e">> >>

Operator2Words ==
    << <<"+","+">>,
       <<"-","-">>,
       <<"-",">">>,
       <<":",":">>,
       <<"<","<">>,
       <<">",">">>,
       <<"<","=">>,
       <<">","=">>,
       <<"=","=">>,
       <<"!","=">>,
       <<"&","&">>,
       <<"|","|">>,
       <<"+","=">>,
       <<"-","=">>,
       <<"*","=">>,
       <<"/","=">>,
       <<"%","=">> >>

IncludeWord == <<"i","n","c","l","u","d","e">>

DefineWord == <<"d","e","f","i","n","e">>

StdPrefix == <<"s","t","d",":",":">>

ScopeOp == <<":",":">>

(***************************************************************************)
(* One operator per pattern of self.patterns: the length of the pattern's   *)
(* match at offset p of s, 0 when it does not match there (no pattern      *)
(* matches the empty string).                                              *)
(***************************************************************************)

\* //.*|/\*[\s\S]*?\*/
MatchComment(s, p) ==
    IF LitAt(s, p, <<"/","/">>)
    THEN 2 + SpanNot(s, p + 2, {"\n"})
    ELSE IF LitAt(s, p, <<"/","*">>) /\ FindLit(s, p + 2, <<"*","/">>) >= 0
    THEN FindLit(s, p + 2, <<"*","/">>) + 2 - p
    ELSE 0

\* ^\s*#\s*include\s*<[^>]+>   (open "<", close ">")
\* ^\s*#\s*include\s*"[^"]+"   (open and close the double quote)
\* From offset c, after `include\s*`: open, [^close]+ (n characters), close.
IncludeTarget(s, p, c, n, open, close) ==
    IF IsAt(s, c, open) /\ n >= 1 /\ IsAt(s, c + 1 + n, close)
    THEN c + 1 + n + 1 - p
    ELSE 0

\* From offset b, after `#\s*`: the word include, then \s*.
IncludeKeyword(s, p, b, c, open, close) ==
    IF LitAt(s, b, IncludeWord)
    THEN IncludeTarget(s, p, c, SpanNot(s, c + 1, {close}), open, close)
    ELSE 0

\* From offset a, after `^\s*`: the #, then \s*.
IncludeHash(s, p, a, b, open, close) ==
    IF IsAt(s, a, "#")
    THEN IncludeKeyword(s, p, b,
            b + Len(IncludeWord) + Span(s, b + Len(IncludeWord), SpaceChars),
            open, close)
    ELSE 0

IncludeIndent(s, p, a, open, close) ==
    IncludeHash(s, p, a, a + 1 + Span(s, a + 1, SpaceChars), open, close)

MatchInclude(s, p, open, close) ==
    IF LineStartAt(s, p)
    THEN IncludeIndent(s, p, p + Span(s, p, SpaceChars), open, close)
    ELSE 0

MatchStandardLibrary(s, p) == MatchInclude(s, p, "<", ">")

MatchOwnLibrary(s, p) == MatchInclude(s, p, "\"", "\"")

\* ^\s*#\s*(define|undef|ifdef|ifndef|endif|pragma|error|warning|elif|else)\b.*$
\* From offset b, after `#\s*`: the directive word (w characters, 0 when
\* none), \b, then .*$
DirectiveRest(s, p, b, w) ==
    IF w > 0 THEN b + w + SpanNot(s, b + w, {"\n"}) - p ELSE 0

DirectiveHash(s, p, a, b) ==
    IF IsAt(s, a, "#")
    THEN DirectiveRest(s, p, b, FirstAlt(s, b, DirectiveWords, TRUE))
    ELSE 0

DirectiveIndent(s, p, a) ==
    DirectiveHash(s, p, a, a + 1 + Span(s, a + 1, SpaceChars))

MatchPreprocessor(s, p) ==
    IF LineStartAt(s, p)
    THEN DirectiveIndent(s, p, p + Span(s, p, SpaceChars))
    ELSE 0

\* The offset at which (?:\\.|[^q\\])* stops, started at offset k.
RECURSIVE QuotedBodyEnd(_, _, _)
QuotedBodyEnd(s, k, q) ==
    IF ~InText(s, k) THEN k
    ELSE IF Ch(s, k) = "\\"
    THEN IF InText(s, k + 1) /\ Ch(s, k + 1) # "\n"
         THEN QuotedBodyEnd(s, k + 2, q)
         ELSE k
    ELSE IF Ch(s, k) = q THEN k
    ELSE QuotedBodyEnd(s, k + 1, q)

\* "(?:\\.|[^"\\])*"
StringClose(s, p, e) == IF IsAt(s, e, "\"") THEN e + 1 - p ELSE 0

MatchString(s, p) ==
    IF IsAt(s, p, "\"") THEN StringClose(s, p, QuotedBodyEnd(s, p + 1, "\""))
    ELSE 0

\* '(?:\\.|[^'\\])'
\* The length of (?:\\.|[^'\\]) at offset k, 0 when it does not match.
CharBody(s, k) ==
    IF IsAt(s, k, "\\")
    THEN IF InText(s, k + 1) /\ Ch(s, k + 1) # "\n" THEN 2 ELSE 0
    ELSE IF InText(s, k) /\ Ch(s, k) # "'" THEN 1 ELSE 0

CharClose(s, p, body) ==
    IF body > 0 /\ IsAt(s, p + 1 + body, "'") THEN body + 2 ELSE 0

MatchChar(s, p) == IF IsAt(s, p, "'") THEN CharClose(s, p, CharBody(s, p + 1)) ELSE 0

\* 0[xX][0-9a-fA-F]+
MatchHexNumber(s, p) ==
    IF IsAt(s, p, "0") /\ IsIn(s, p + 1, {"x","X"}) /\ IsIn(s, p + 2, HexDigits)
    THEN 2 + Span(s, p + 2, HexDigits) ELSE 0

\* 0[bB][01]+
MatchBinaryNumber(s, p) ==
    IF IsAt(s, p, "0") /\ IsIn(s, p + 1, {"b","B"})
       /\ IsIn(s, p + 2, BinaryDigits)
    THEN 2 + Span(s, p + 2, BinaryDigits) ELSE 0

\* (?:\d*\.\d+|\d+\.\d*)(?:[eE][-+]?\d+)?
\* (?:[eE][-+]?\d+)? at offset e: sign is the length of [-+]?, ed of \d+.
ExponentDigits(sign, ed) == IF ed >= 1 THEN 1 + sign + ed ELSE 0

ExponentSign(s, e, sign) ==
    ExponentDigits(sign, Span(s, e + 1 + sign, Digits))

MatchExponent(s, e) ==
    IF IsIn(s, e, {"e","E"})
    THEN ExponentSign(s, e, IF IsIn(s, e + 1, {"-","+"}) THEN 1 ELSE 0)
    ELSE 0

\* (?:\d*\.\d+|\d+\.\d*): d1 digits, the point, d2 digits, one of them not
\* empty.
Mantissa(d1, d2) == IF d2 >= 1 \/ d1 >= 1 THEN d1 + 1 + d2 ELSE 0

FloatWithMantissa(s, p, mant) ==
    IF mant = 0 THEN 0 ELSE mant + MatchExponent(s, p + mant)

FloatAfterDigits(s, p, d1) ==
    IF IsAt(s, p + d1, ".")
    THEN FloatWithMantissa(s, p, Mantissa(d1, Span(s, p + d1 + 1, Digits)))
    ELSE 0

MatchFloatNumber(s, p) == FloatAfterDigits(s, p, Span(s, p, Digits))

\* 0[0-7]+
MatchOctalNumber(s, p) ==
    IF IsAt(s, p, "0") /\ IsIn(s, p + 1, OctalDigits)
    THEN 1 + Span(s, p + 1, OctalDigits) ELSE 0

\* \d+
MatchIntNumber(s, p) == Span(s, p, Digits)

\* \b(w1|w2|...)\b
MatchWordOf(s, p, words) ==
    IF WordBoundary(s, p) THEN FirstAlt(s, p, words, TRUE) ELSE 0

\* \+\+|--|->|::|<<|>>|<=|>=|==|!=|&&|\|\||\+=|-=|\*=|\/=|%=
MatchOperator2(s, p) == FirstAlt(s, p, Operator2Words, FALSE)

\* [+\-*/%=<>!&|~^]
MatchOperator1(s, p) == IF IsIn(s, p, Operator1Chars) THEN 1 ELSE 0

\* [{}()\[\];,.:?]
MatchSymbol(s, p) == IF IsIn(s, p, SymbolChars) THEN 1 ELSE 0

\* [a-zA-Z_]\w*
MatchIdentifier(s, p) ==
    IF IsIn(s, p, IdentStartChars) THEN 1 + Span(s, p + 1, WordChars) ELSE 0

\* \w+::\w+
NamespaceAfterWord(s, p, a) ==
    IF a >= 1 /\ LitAt(s, p + a, ScopeOp) /\ IsIn(s, p + a + 2, WordChars)
    THEN a + 2 + Span(s, p + a + 2, WordChars) ELSE 0

MatchNamespace(s, p) == NamespaceAfterWord(s, p, Span(s, p, WordChars))

\* \s+
MatchWhitespace(s, p) == Span(s, p, SpaceChars)


(***************************************************************************)
(* self.patterns in declaration order, and the master regex: the           *)
(* alternation of the patterns as named groups in that order, so that at a *)
(* given offset the first pattern that matches wins.                       *)
(***************************************************************************)
PatternOrder ==
    << "COMMENT", "STANDARD_LIBRARY", "OWN_LIBRARY", "PREPROCESSOR",
       "STRING", "CHAR",
       "HEX_NUMBER", "BINARY_NUMBER", "FLOAT_NUMBER", "OCTAL_NUMBER",
       "INT_NUMBER",
       "KEYWORD", "TYPE", "BOOLEAN", "NULL",
       "OPERATOR_2CHAR", "OPERATOR_1CHAR", "SYMBOL",
       "IDENTIFIER", "NAMESPACE", "WHITESPACE" >>

PatternLen(name, s, p) ==
    CASE name = "COMMENT" -> MatchComment(s, p)
      [] name = "STANDARD_LIBRARY" -> MatchStandardLibrary(s, p)
      [] name = "OWN_LIBRARY" -> MatchOwnLibrary(s, p)
      [] name = "PREPROCESSOR" -> MatchPreprocessor(s, p)
      [] name = "STRING" -> MatchString(s, p)
      [] name = "CHAR" -> MatchChar(s, p)
      [] name = "HEX_NUMBER" -> MatchHexNumber(s, p)
      [] name = "BINARY_NUMBER" -> MatchBinaryNumber(s, p)
      [] name = "FLOAT_NUMBER" -> MatchFloatNumber(s, p)
      [] name = "OCTAL_NUMBER" -> MatchOctalNumber(s, p)
      [] name = "INT_NUMBER" -> MatchIntNumber(s, p)
      [] name = "KEYWORD" -> MatchWordOf(s, p, KeywordWords)
      [] name = "TYPE" -> MatchWordOf(s, p, TypeWords)
      [] name = "BOOLEAN" -> MatchWordOf(s, p, BooleanWords)
      [] name = "NULL" -> MatchWordOf(s, p, NullWords)
      [] name = "OPERATOR_2CHAR" -> MatchOperator2(s, p)
      [] name = "OPERATOR_1CHAR" -> MatchOperator1(s, p)
      [] name = "SYMBOL" -> MatchSymbol(s, p)
      [] name = "IDENTIFIER" -> MatchIdentifier(s, p)
      [] name = "NAMESPACE" -> MatchNamespace(s, p)
      [] name = "WHITESPACE" -> MatchWhitespace(s, p)

NoMatch == [start |-> -1, group |-> "", len |-> 0]

\* A variant of MatchAt that prefers the longest match at p (maximal munch),
\* the earlier pattern among equally long ones.
RECURSIVE LongestFrom(_, _, _, _, _)
LongerOf(order, s, p, r, best, n) ==
    LongestFrom(order, s, p, r + 1,
                IF n > best.len THEN [start |-> p, group |-> order[r], len |-> n]
                ELSE best)

LongestFrom(order, s, p, r, best) ==
    IF r > Len(order) THEN best
    ELSE LongerOf(order, s, p, r, best, PatternLen(order[r], s, p))

MatchAtLongest(s, p) == LongestFrom(PatternOrder, s, p, 1, NoMatch)

\* The master regex tried at offset p: the alternatives are tried in order from
\* rank r, and the first that matches gives the match (its group is
\* match.lastgroup); NoMatch when none matches at p.
RECURSIVE MatchAtFrom(_, _, _, _)
MatchOrNextRank(order, s, p, r, n) ==
    IF n > 0 THEN [start |-> p, group |-> order[r], len |-> n]
    ELSE MatchAtFrom(order, s, p, r + 1)

MatchAtFrom(order, s, p, r) ==
    IF r > Len(order) THEN NoMatch
    ELSE MatchOrNextRank(order, s, p, r, PatternLen(order[r], s, p))

MatchAt(s, p) == MatchAtFrom(PatternOrder, s, p, 1)

\* The next match finditer yields when resumed at offset from: the match at
\* the leftmost offset at or after from where the master regex matches (the
\* characters before it match no pattern and are passed over); NoMatch when
\* finditer is exhausted.
RECURSIVE NextMatch(_, _)
MatchOrNextOffset(s, from, m) ==
    IF m.len > 0 THEN m ELSE NextMatch(s, from + 1)

NextMatch(s, from) ==
    IF from >= Len(s) THEN NoMatch
    ELSE MatchOrNextOffset(s, from, MatchAt(s, from))

\* match.end(): where finditer resumes.
MatchEnd(m) == m.start + m.len

(***************************************************************************)
(* Line and column of an offset (tokenize, lines 84-102).                  *)
(***************************************************************************)
RECURSIVE LineStartsFrom(_, _)
LineStartsFrom(code, k) ==
    IF k >= Len(code) THEN << >>
    ELSE (IF Ch(code, k) = "\n" THEN <<k + 1>> ELSE << >>)
         \o LineStartsFrom(code, k + 1)

\* line_starts; the Python list's element j is LineStarts(code)[j + 1].
LineStarts(code) == <<0>> \o LineStartsFrom(code, 0)

RECURSIVE LineNumLoop(_, _, _)
LineNumLoop(ls, start_pos, line_num) ==
    IF line_num < Len(ls) /\ ls[line_num + 1] <= start_pos
    THEN LineNumLoop(ls, start_pos, line_num + 1)
    ELSE line_num

\* A variant of ColumnNum that counts columns from 0.
ColumnFromZero(start_pos, current_line_start) == start_pos - current_line_start

ColumnNum(start_pos, current_line_start) == start_pos - current_line_start + 1

Filename == "input.txt"

Token(type, value, line, column, filename) ==
    [type |-> type, value |-> value, line |-> line, column |-> column,
     filename |-> filename]

\* The token tokenize builds for the match of group type at start_pos
\* (lines 92-109).
TokenOnLine(code, type, start_pos, len, line_starts, line_num) ==
    Token(type, SubSeq(code, start_pos + 1, start_pos + len), line_num,
          ColumnNum(start_pos, line_starts[line_num]), Filename)

TokenWithLines(code, type, start_pos, len, line_starts) ==
    TokenOnLine(code, type, start_pos, len, line_starts,
                LineNumLoop(line_starts, start_pos, 1))

ScannedToken(code, type, start_pos, len) ==
    TokenWithLines(code, type, start_pos, len, LineStarts(code))

(***************************************************************************)
(* find_problems.  A message is the sequence of the pieces its f-string    *)
(* concatenates: literal pieces as whole strings, interpolated text        *)
(* character by character.                                                 *)
(***************************************************************************)
Problem(line, message, solution) ==
    [line |-> line, message |-> message, solution |-> solution]

AllowedLibs ==
    { <<"i","o","s","t","r","e","a","m">>,
      <<"s","t","l","_","l","i","b","r","a","r","y",".","p","y">>,
      <<"s","t","d","i","o",".","h">> }

RestrictedNames ==
    { <<"p","r","i","n","t","f">>, <<"s","c","a","n","f">>,
      <<"m","a","l","l","o","c">>, <<"f","r","e","e">> }

RestrictedFuncs ==
    [n \in RestrictedNames |->
        CASE n = <<"p","r","i","n","t","f">> -> "STLLibrary.printf()"
          [] n = <<"s","c","a","n","f">> -> "STLLibrary.scanf()"
          [] n = <<"m","a","l","l","o","c">> -> "STLLibrary.malloc()"
          [] n = <<"f","r","e","e">> -> "STLLibrary.free()"]

\* The orders in which iterating the set allowed_libs can yield its members
\* (string hashing is seeded per process).
SetOrders(S) ==
    {o \in [1..Cardinality(S) -> S] : \A a, b \in DOMAIN o : a # b => o[a] # o[b]}

\* ', '.join(parts)
RECURSIVE JoinComma(_)
JoinComma(parts) ==
    IF parts = << >> THEN << >>
    ELSE IF Len(parts) = 1 THEN parts[1]
    ELSE parts[1] \o <<", ">> \o JoinComma(Tail(parts))

\* re.search(r'[<"]([^>"]+)[>"]', value), tried at offset q.
LibMatchClose(value, q, n) ==
    IF n >= 1 /\ IsIn(value, q + 1 + n, {">", "\""}) THEN n ELSE 0

LibMatchLen(value, q) ==
    IF IsIn(value, q, {"<", "\""})
    THEN LibMatchClose(value, q, SpanNot(value, q + 1, {">", "\""}))
    ELSE 0

\* The offset of the leftmost match at or after q, -1 when there is none.
RECURSIVE LibMatchStart(_, _)
LibMatchStart(value, q) ==
    IF q >= Len(value) THEN -1
    ELSE IF LibMatchLen(value, q) > 0 THEN q
    ELSE LibMatchStart(value, q + 1)

HasLibMatch(value) == LibMatchStart(value, 0) >= 0

\* lib_match.group(1)
LibGroupAt(value, q) == SubSeq(value, q + 2, q + 1 + LibMatchLen(value, q))

LibMatchGroup(value) == LibGroupAt(value, LibMatchStart(value, 0))

\* value.split('(')[0]
BeforeParen(value) == SubSeq(value, 1, SpanNot(value, 0, {"("}))

\* The offset where the last piece of value.split('::') starts: separators are
\* found left to right without overlap.
RECURSIVE LastPieceStart(_, _, _)
LastPieceStart(value, k, start) ==
    IF k >= Len(value) THEN start
    ELSE IF LitAt(value, k, ScopeOp)
    THEN LastPieceStart(value, k + 2, k + 2)
    ELSE LastPieceStart(value, k + 1, start)

\* value.split('::')[-1]
AfterLastScope(value) ==
    SubSeq(value, LastPieceStart(value, 0, 0) + 1, Len(value))

IncludeRule(token, value) ==
    token.type = "PREPROCESSOR" /\ Contains(value, IncludeWord)

MacroRule(token, value) ==
    token.type = "PREPROCESSOR" /\ Contains(value, DefineWord)

\* A variant of RestrictedCallRule that does not ask for a parenthesis in the
\* lexeme.
AnyIdentifierRule(token, value) == token.type = "IDENTIFIER"

RestrictedCallRule(token, value) ==
    token.type = "IDENTIFIER" /\ Contains(value, <<"(">>)

StdUsageRule(token, value) ==
    token.type = "NAMESPACE" /\ Contains(value, StdPrefix)

\* Whether find_problems evaluates ', '.join(allowed_libs) for this token.
JoinsAllowedLibs(token, value) ==
    /\ IncludeRule(token, value)
    /\ HasLibMatch(value)
    /\ LibMatchGroup(value) \notin AllowedLibs

\* The problems find_problems(token, value) adds, order being the order in
\* which allowed_libs is iterated.
FindProblems(token, value, order) ==
    IF IncludeRule(token, value)
    THEN IF HasLibMatch(value) /\ LibMatchGroup(value) \notin AllowedLibs
         THEN << Problem(token.line,
                         <<"Unauthorized library: ">> \o LibMatchGroup(value),
                         <<"Allowed: ">> \o JoinComma(order)) >>
         ELSE << >>
    ELSE IF MacroRule(token, value)
    THEN IF Contains(value, <<"(">>)
         THEN << Problem(token.line, <<"Function-like macro: ">> \o value,
                         <<"Use constexpr functions instead">>) >>
         ELSE << Problem(token.line, <<"Constant macro: ">> \o value,
                         <<"Use constexpr variables instead">>) >>
    ELSE IF RestrictedCallRule(token, value)
    THEN IF BeforeParen(value) \in RestrictedNames
         THEN << Problem(token.line,
                         <<"Direct call to ">> \o BeforeParen(value) \o <<"()">>,
                         <<"Use ", RestrictedFuncs[BeforeParen(value)],
                           " instead">>) >>
         ELSE << >>
    ELSE IF StdUsageRule(token, value)
    THEN << Problem(token.line, <<"Using std::">> \o AfterLastScope(value),
                    <<"Learning: Create your own ">> \o AfterLastScope(value)
                        \o <<" implementation">>) >>
    ELSE << >>

(***************************************************************************)
(* combine_function_calls: the helpers of its loop.  The index i is the     *)
(* Python index, so tokens[i] of the source is ts[i + 1] here.             *)
(***************************************************************************)
OpenParen == <<"(">>

CloseParen == <<")">>

\* A variant of IsCallStart whose bound check is off by one: a call whose "("
\* is the last token is not seen.
IsCallStartBeforeLast(ts, i) ==
    /\ ts[i + 1].type = "IDENTIFIER"
    /\ i + 2 < Len(ts)
    /\ ts[i + 2].type = "SYMBOL"
    /\ ts[i + 2].value = OpenParen

\* The test of line 188-191: IDENTIFIER followed by SYMBOL '('.
IsCallStart(ts, i) ==
    /\ ts[i + 1].type = "IDENTIFIER"
    /\ i + 1 < Len(ts)
    /\ ts[i + 2].type = "SYMBOL"
    /\ ts[i + 2].value = OpenParen

\* A variant of KeepCollecting that stops one token before the end.
KeepCollectingBeforeLast(ts, i, paren_count) ==
    i + 1 < Len(ts) /\ paren_count > 0

\* The condition of the inner while loop (line 204).
KeepCollecting(ts, i, paren_count) == i < Len(ts) /\ paren_count > 0

\* A variant of CountParen that does not count an inner "(".
CountCloseOnly(paren_count, value) ==
    IF value = CloseParen THEN paren_count - 1 ELSE paren_count

\* paren_count after consuming a token with this value (lines 208-211).
CountParen(paren_count, value) ==
    IF value = OpenParen THEN paren_count + 1
    ELSE IF value = CloseParen THEN paren_count - 1
    ELSE paren_count

\* "".join(call_tokens)
RECURSIVE JoinAll(_)
JoinAll(parts) ==
    IF parts = << >> THEN << >> ELSE parts[1] \o JoinAll(Tail(parts))

\* The combined token of lines 216-222.
FunctionCallToken(call_tokens, start_line, start_column, filename) ==
    Token("FUNCTION_CALL", JoinAll(call_tokens), start_line, start_column,
          filename)

\* A variant of NextIndex that leaves the index where it is.
SameIndex(i) == i

\* i += 1 (lines 213 and 225).
NextIndex(i) == i + 1

(***************************************************************************)
(* combine_function_calls as a function of its argument (lines 180-227),    *)
(* for applying it to a list that is not the state's.                      *)
(***************************************************************************)
\* The index at which the inner loop stops, entered at index i.
RECURSIVE CollectEnd(_, _, _)
CollectEnd(ts, i, count) ==
    IF KeepCollecting(ts, i, count)
    THEN CollectEnd(ts, NextIndex(i), CountParen(count, ts[i + 1].value))
    ELSE i

RECURSIVE CombineFrom(_, _)
\* The combined token for the call starting at index i and the rest of the
\* output, the inner loop having stopped at index e.
CallThenRest(ts, i, e) ==
    << FunctionCallToken([k \in 1..(e - i) |-> ts[i + k].value],
                         ts[i + 1].line, ts[i + 1].column, ts[i + 1].filename) >>
    \o CombineFrom(ts, e)

CombineFrom(ts, i) ==
    IF i >= Len(ts) THEN << >>
    ELSE IF IsCallStart(ts, i) THEN CallThenRest(ts, i, CollectEnd(ts, i + 2, 1))
    ELSE <<ts[i + 1]>> \o CombineFrom(ts, NextIndex(i))

CombineFunctionCalls(ts) == CombineFrom(ts, 0)

(***************************************************************************)
(* Inputs.  A text is a concatenation of at most MaxWords words, or one of  *)
(* the sample texts.                                                       *)
(***************************************************************************)
Words ==
    { <<"f">>, <<"(">>, <<")">>, <<"+">>, <<"\n">>, <<"\"">>,
      <<"#","d","e","f","i","n","e"," ">>,
      <<"i","n","c","l","u","d","e">>,
      <<"s","t","d",":",":">>,
      <<UnicodeLetter>> }

RECURSIVE TextsOf(_)
TextsOf(n) ==
    IF n = 0 THEN { << >> }
    ELSE LET shorter == TextsOf(n - 1)
         IN  shorter \cup {t \o w : t \in shorter, w \in Words}

IncludeCmath == <<"#","i","n","c","l","u","d","e"," ","<","c","m","a","t","h",">">>

IncludeIostream ==
    <<"#","i","n","c","l","u","d","e"," ","<","i","o","s","t","r","e","a","m",">">>

IncludeOwn ==
    <<"#","i","n","c","l","u","d","e"," ","\"","f","o","o",".","h","\"">>

StdSortCall ==
    <<"s","t","d",":",":","s","o","r","t","(","v",".","b","e","g","i","n","(",
      ")",","," ","v",".","e","n","d","(",")",")">>

DefineMax ==
    <<"#","d","e","f","i","n","e"," ","M","A","X","(","a",",","b",")"," ","(",
      "(","a",")",">","(","b",")","?","(","a",")",":","(","b",")",")">>

DefineLimit ==
    <<"#","d","e","f","i","n","e"," ","L","I","M","I","T"," ","1","0","0">>

DefineIncludeGuard ==
    <<"#","d","e","f","i","n","e"," ","i","n","c","l","u","d","e","_","g","u",
      "a","r","d"," ","1">>

PragmaInclude ==
    <<"#","p","r","a","g","m","a"," ","i","n","c","l","u","d","e"," ","\"","y",
      "\"">>

UnbalancedFoo == <<"f","o","o","(","a",","," ","(","b",")">>

APlusPlusB == <<"a","+","+","b">>

PrintfCall == <<"p","r","i","n","t","f","(","\"","x","\"",")">>

MallocCall == <<"m","a","l","l","o","c","(","4",")">>

Numbers ==
    <<"0","x","1","F"," ","+"," ","0","b","1","0","1"," ","+"," ","3",".","1",
      "4"," ","+"," ","0","7","7"," ","+"," ","4","2">>

UnicodeStdSort ==
    <<UnicodeLetter,"s","t","d",":",":","s","o","r","t","(","v",")">>

CommentsAndChar ==
    <<"/","*"," ","x"," ","*","/"," ","a"," ","/","/"," ","c","\n","i","f"," ",
      "(","t","r","u","e",")"," ","r","e","t","u","r","n"," ","'","(","'",";">>

StringAndDirectives ==
    <<"x"," ","="," ","\"","a","\\","\"","b","\""," ","+"," ","g","(","y",")",
      ";","\n"," "," ","#","d","e","f","i","n","e"," ","Z","\n","#","u","n","d",
      "e","f"," ","Z","\n">>

\* An unterminated string and an unterminated comment inside an unclosed call.
MalformedCall == <<"f","(","\"","x"," ","/","*">>

Samples ==
    { IncludeCmath, IncludeIostream, IncludeOwn, StdSortCall, DefineMax,
      DefineLimit, DefineIncludeGuard, PragmaInclude, UnbalancedFoo,
      APlusPlusB, PrintfCall, MallocCall, Numbers, UnicodeStdSort,
      CommentsAndChar, StringAndDirectives, MalformedCall }

Texts == TextsOf(MaxWords) \cup Samples

\* The texts on which tokenize is run to completion.
FairTexts == TextsOf(MaxFairWords) \cup Samples

\* Token sequences handed to combine_function_calls directly: any sequence of
\* at most MaxTokens tokens over these kinds, the k-th at line 1, column k.
TokenKinds ==
    { <<"IDENTIFIER", <<"f">>>>,
      <<"SYMBOL", OpenParen>>,
      <<"SYMBOL", CloseParen>>,
      <<"NAMESPACE", <<"a",":",":","b">>>> }

TokenList(kinds) ==
    [k \in DOMAIN kinds |-> Token(kinds[k][1], kinds[k][2], 1, k, Filename)]

(***************************************************************************)
(* The state: the text and finditer's position in it, self.tokens as the    *)
(* scanner builds it, the tracker's problems, and the locals of            *)
(* combine_function_calls.                                                 *)
(***************************************************************************)
VARIABLES
    code,           \* the text given to tokenize
    pos,            \* where finditer resumes
    match,          \* the loop variable of `for match in finditer`
    tokens,         \* the list the scanner builds and the merger reads
    problems,       \* problem_tracker.problems
    allowed_order,  \* the iteration order of allowed_libs, << >> until used
    pc,             \* "scan", "body", "merge", "collect" or "done"
    i,              \* the merger's index
    combined,       \* the merger's output list
    loop_token,     \* the merger's local `token`
    call_tokens,    \* the lexemes collected for the current call
    paren_count,
    start_line,
    start_column,
    result          \* what tokenize / combine_function_calls returned

vars ==
    << code, pos, match, tokens, problems, allowed_order, pc, i, combined,
       loop_token, call_tokens, paren_count, start_line, start_column, result >>

scanVars == << code, pos, match, tokens, problems, allowed_order >>

mergeLocals ==
    << i, combined, loop_token, call_tokens, paren_count, start_line,
       start_column, result >>

NoToken == Token("", << >>, 0, 0, "")

InitLocals ==
    /\ i = 0
    /\ combined = << >>
    /\ loop_token = NoToken
    /\ call_tokens = << >>
    /\ paren_count = 0
    /\ start_line = 0
    /\ start_column = 0
    /\ result = << >>

\* tokenize(code) is called on a fresh lexer.
Init ==
    /\ code \in Texts
    /\ pos = 0
    /\ match = NoMatch
    /\ tokens = << >>
    /\ problems = << >>
    /\ allowed_order = << >>
    /\ pc = "scan"
    /\ InitLocals

\* The same on a text of FairTexts.
FairInit ==
    /\ code \in FairTexts
    /\ pos = 0
    /\ match = NoMatch
    /\ tokens = << >>
    /\ problems = << >>
    /\ allowed_order = << >>
    /\ pc = "scan"
    /\ InitLocals

\* combine_function_calls(tokens) is called on a token list.
MergeInit ==
    /\ code = << >>
    /\ pos = 0
    /\ match = NoMatch
    /\ \E n \in 0..MaxTokens :
         \E kinds \in [1..n -> TokenKinds] : tokens = TokenList(kinds)
    /\ problems = << >>
    /\ allowed_order = << >>
    /\ pc = "merge"
    /\ InitLocals

(***************************************************************************)
(* tokenize: the for statement takes the next match from finditer in one   *)
(* step and runs its body on it in the next.                               *)
(***************************************************************************)
\* finditer yields a match and will resume at its end (line 91).
MatchFound(m) ==
    /\ match' = m
    /\ match'.len > 0
    /\ pos' = MatchEnd(match')
    /\ pc' = "body"
    /\ UNCHANGED << code, tokens, problems, allowed_order >>
    /\ UNCHANGED mergeLocals

\* finditer is exhausted: combine_function_calls(self.tokens) is entered
\* (line 116, lines 182-183).
ScanFinish(m) ==
    /\ m.len = 0
    /\ pc' = "merge"
    /\ i' = 0
    /\ combined' = << >>
    /\ UNCHANGED scanVars
    /\ UNCHANGED << loop_token, call_tokens, paren_count, start_line,
                    start_column, result >>

IterateWith(m) ==
    \/ MatchFound(m)
    \/ ScanFinish(m)

\* The for statement asks finditer for its next match.
ScanNext ==
    /\ pc = "scan"
    /\ IterateWith(NextMatch(code, pos))

\* The orders in which this call of find_problems may iterate allowed_libs:
\* the order already seen in this process, else any.
JoinOrders(token) ==
    IF allowed_order # << >> THEN {allowed_order}
    ELSE IF JoinsAllowedLibs(token, token.value) THEN SetOrders(AllowedLibs)
    ELSE {<< >>}

\* Lines 109-113: the token is appended and find_problems runs on it.
TokenAppended(token) ==
    /\ tokens' = Append(tokens, token)
    /\ \E order \in JoinOrders(token) :
         /\ problems' = problems \o FindProblems(token, token.value, order)
         /\ allowed_order' = order

\* The body on a match of a pattern other than WHITESPACE (lines 92-113).
ScanToken ==
    /\ pc = "body"
    /\ match.group # "WHITESPACE"
    /\ \E token \in {ScannedToken(code, match.group, match.start, match.len)} :
          TokenAppended(token)
    /\ pc' = "scan"
    /\ UNCHANGED << code, pos, match >>
    /\ UNCHANGED mergeLocals

\* The body on a WHITESPACE match: `continue` (lines 105-106).
ScanWhitespace ==
    /\ pc = "body"
    /\ match.group = "WHITESPACE"
    /\ pc' = "scan"
    /\ UNCHANGED scanVars
    /\ UNCHANGED mergeLocals

(***************************************************************************)
(* combine_function_calls: one iteration of either while loop per step.    *)
(***************************************************************************)
\* The else branch (lines 223-225).
MergeCopy ==
    /\ pc = "merge"
    /\ i < Len(tokens)
    /\ ~IsCallStart(tokens, i)
    /\ loop_token' = tokens[i + 1]
    /\ combined' = Append(combined, tokens[i + 1])
    /\ i' = NextIndex(i)
    /\ UNCHANGED scanVars
    /\ UNCHANGED << pc, call_tokens, paren_count, start_line, start_column,
                    result >>

\* The call pattern is met (lines 188-203).
MergeBegin ==
    /\ pc = "merge"
    /\ i < Len(tokens)
    /\ IsCallStart(tokens, i)
    /\ loop_token' = tokens[i + 1]
    /\ call_tokens' = << tokens[i + 1].value, tokens[i + 2].value >>
    /\ start_line' = tokens[i + 1].line
    /\ start_column' = tokens[i + 1].column
    /\ i' = i + 2
    /\ paren_count' = 1
    /\ pc' = "collect"
    /\ UNCHANGED scanVars
    /\ UNCHANGED << combined, result >>

\* One iteration of the inner loop (lines 204-213).
CollectToken ==
    /\ pc = "collect"
    /\ KeepCollecting(tokens, i, paren_count)
    /\ call_tokens' = Append(call_tokens, tokens[i + 1].value)
    /\ paren_count' = CountParen(paren_count, tokens[i + 1].value)
    /\ i' = NextIndex(i)
    /\ UNCHANGED scanVars
    /\ UNCHANGED << pc, combined, loop_token, start_line, start_column, result >>

\* The inner loop ends and the combined token is appended (lines 215-222).
EmitCall ==
    /\ pc = "collect"
    /\ ~KeepCollecting(tokens, i, paren_count)
    /\ combined' = Append(combined,
                     FunctionCallToken(call_tokens, start_line, start_column,
                                       loop_token.filename))
    /\ pc' = "merge"
    /\ UNCHANGED scanVars
    /\ UNCHANGED << i, loop_token, call_tokens, paren_count, start_line,
                    start_column, result >>

\* The outer loop ends: `return combined` (line 227, and line 116-118 when
\* called from tokenize).
MergeReturn ==
    /\ pc = "merge"
    /\ i >= Len(tokens)
    /\ result' = combined
    /\ pc' = "done"
    /\ UNCHANGED scanVars
    /\ UNCHANGED << i, combined, loop_token, call_tokens, paren_count,
                    start_line, start_column >>

MergeNext ==
    \/ MergeCopy
    \/ MergeBegin
    \/ CollectToken
    \/ EmitCall
    \/ MergeReturn

Next ==
    \/ ScanNext
    \/ ScanToken
    \/ ScanWhitespace
    \/ MergeCopy
    \/ MergeBegin
    \/ CollectToken
    \/ EmitCall
    \/ MergeReturn

\* tokenize on a text.
Spec == Init /\ [][Next]_vars

\* The same, run to completion: the interpreter keeps executing the loops.
FairSpec == FairInit /\ [][Next]_vars /\ WF_vars(Next)

\* combine_function_calls on a token list.
MergeSpec == MergeInit /\ [][MergeNext]_vars

(***************************************************************************)
(* Vocabulary of the properties.                                           *)
(***************************************************************************)
\* The scanner has just finished.
JustScanned == pc = "merge" /\ i = 0

Done == pc = "done"

\* The offset in code of a raw token's first character, from its line and
\* column.
OffsetOf(t) == LineStarts(code)[t.line] + t.column - 1

\* (line, column) order.
Before(a, b) == a.line < b.line \/ (a.line = b.line /\ a.column < b.column)

NotAfter(a, b) == a.line < b.line \/ (a.line = b.line /\ a.column <= b.column)

NonDecreasing(ts) == \A k \in 1..(Len(ts) - 1) : NotAfter(ts[k], ts[k + 1])

PositionsFromOne(ts) == \A k \in 1..Len(ts) : ts[k].line >= 1 /\ ts[k].column >= 1

\* The concatenation of the lexemes of ts[a..b].
JoinValues(ts, a, b) == JoinAll([k \in 1..(b - a + 1) |-> ts[a + k - 1].value])

\* An IDENTIFIER immediately followed by the SYMBOL "(" at position k of ts.
IdentThenParen(ts, k) ==
    /\ k < Len(ts)
    /\ ts[k].type = "IDENTIFIER"
    /\ ts[k + 1].type = "SYMBOL"
    /\ ts[k + 1].value = <<"(">>

\* The depth counter after the tokens ts[a..b], started at 0.
DepthOver(ts, a, b) ==
    Cardinality({k \in a..b : ts[k].value = <<"(">>})
    - Cardinality({k \in a..b : ts[k].value = <<")">>})

\* The depth counter of a call starting at k, after consuming through e.
DepthAt(ts, k, e) == 1 + DepthOver(ts, k + 2, e)

\* ts[e] is the ")" that first returns the depth of the call at k to 0.
ClosesAt(ts, k, e) ==
    /\ e >= k + 2
    /\ e <= Len(ts)
    /\ DepthAt(ts, k, e) = 0
    /\ \A m \in (k + 2)..(e - 1) : DepthAt(ts, k, m) > 0

Balanced(ts, k) == \E e \in (k + 2)..Len(ts) : ClosesAt(ts, k, e)

\* Where the run starting at k ends: k itself for a token that starts no
\* call, the closing ")" of a balanced call, the end of ts otherwise.
RunEnd(ts, k) ==
    IF ~IdentThenParen(ts, k) THEN k
    ELSE IF Balanced(ts, k)
    THEN CHOOSE e \in (k + 2)..Len(ts) : ClosesAt(ts, k, e)
    ELSE Len(ts)

\* The positions the merge pass meets outside any accumulation.
RECURSIVE RunStarts(_, _)
RunStarts(ts, k) ==
    IF k > Len(ts) THEN << >> ELSE <<k>> \o RunStarts(ts, RunEnd(ts, k) + 1)

Composite(ts, k, e) ==
    [type |-> "FUNCTION_CALL", value |-> JoinValues(ts, k, e),
     line |-> ts[k].line, column |-> ts[k].column, filename |-> ts[k].filename]

MentionsDirectCall(p) == p.message # << >> /\ p.message[1] = "Direct call to "

(***************************************************************************)
(* The properties.                                                         *)
(***************************************************************************)
\* The run starts as a set.
RunStartSet(ts) == {RunStarts(ts, 1)[j] : j \in 1..Len(RunStarts(ts, 1))}

\* The message mentions the name: the name's characters occur in it in a row.
Mentions(message, name) == Contains(message, name)

\* The indices of the problems reported on a line.
ProblemsOnLine(line) == {j \in 1..Len(problems) : problems[j].line = line}

\* A token scanned by one of the two library-include patterns.
IsLibraryInclude(t) == t.type \in {"STANDARD_LIBRARY", "OWN_LIBRARY"}

SortName == <<"s","o","r","t">>

StdSortName == <<"s","t","d",":",":","s","o","r","t">>

\* The rank of a pattern name in the declaration order.
RankOf(name) == CHOOSE r \in 1..Len(PatternOrder) : PatternOrder[r] = name

(***************************************************************************)
(* C1: when tokenize has returned, every library-include token whose      *)
(* target is not an allowed library has exactly one problem on its line,   *)
(* whose message names the target and whose suggestion lists the allowed   *)
(* libraries; an include of an allowed library has no problem on its line. *)
(***************************************************************************)
C1_IncludePolicy ==
    Done =>
        \A k \in 1..Len(tokens) :
            (IsLibraryInclude(tokens[k]) /\ HasLibMatch(tokens[k].value)) =>
                IF LibMatchGroup(tokens[k].value) \in AllowedLibs
                THEN ProblemsOnLine(tokens[k].line) = {}
                ELSE /\ Cardinality(ProblemsOnLine(tokens[k].line)) = 1
                     /\ \A j \in ProblemsOnLine(tokens[k].line) :
                            /\ Mentions(problems[j].message,
                                        LibMatchGroup(tokens[k].value))
                            /\ problems[j].solution[1] = "Allowed: "

(***************************************************************************)
(* C2: for the text std::sort(v.begin(), v.end()) tokenize scans std::sort *)
(* as one NAMESPACE token, reports exactly one problem, which names sort,  *)
(* and returns the NAMESPACE token itself, not folded into a FUNCTION_CALL.*)
(***************************************************************************)
C2_QualifiedName ==
    (Done /\ code = StdSortCall) =>
        /\ \E k \in 1..Len(tokens) :
              tokens[k].type = "NAMESPACE" /\ tokens[k].value = StdSortName
        /\ Len(problems) = 1
        /\ Mentions(problems[1].message, SortName)
        /\ \E j \in 1..Len(result) :
              result[j].type = "NAMESPACE" /\ result[j].value = StdSortName

(***************************************************************************)
(* C3: when tokenize has returned, every PREPROCESSOR token whose text     *)
(* contains define has a problem on its line, "Function-like macro" when   *)
(* the text contains "(" and "Constant macro" otherwise.  (No PREPROCESSOR *)
(* token is an include directive: include is not among the directive words *)
(* of that pattern.)                                                       *)
(***************************************************************************)
C3_MacroClassified ==
    Done =>
        \A k \in 1..Len(tokens) :
            (tokens[k].type = "PREPROCESSOR"
             /\ Contains(tokens[k].value, DefineWord)) =>
                \E j \in ProblemsOnLine(tokens[k].line) :
                    problems[j].message[1] =
                        IF Contains(tokens[k].value, <<"(">>)
                        THEN "Function-like macro: "
                        ELSE "Constant macro: "

(***************************************************************************)
(* C4: the list combine_function_calls returns is what the function        *)
(* computes from its argument, merging it again returns it unchanged, and  *)
(* it holds no IDENTIFIER immediately followed by the SYMBOL "(".          *)
(***************************************************************************)
C4_MergeIdempotent ==
    Done =>
        /\ result = CombineFunctionCalls(tokens)
        /\ CombineFunctionCalls(result) = result
        /\ \A k \in 1..Len(result) : ~IdentThenParen(result, k)

\* A composite token followed by "(" is returned: the pair is not a call start.
C4_CompositeThenParen ==
    /\ Done
    /\ \E k \in 1..(Len(result) - 1) :
          /\ result[k].type = "FUNCTION_CALL"
          /\ result[k + 1].type = "SYMBOL"
          /\ result[k + 1].value = <<"(">>

(***************************************************************************)
(* C5: when tokenize has returned and a call met outside any accumulation  *)
(* is never closed, the last token returned is the one FUNCTION_CALL made  *)
(* of every lexeme from its identifier through the end of the raw tokens,  *)
(* positioned at the identifier, and every other token returned lies       *)
(* before it; foo(a, (b) gives the single token foo(a,(b).                 *)
(***************************************************************************)
C5_UnbalancedCall ==
    Done =>
        /\ \A k \in RunStartSet(tokens) :
              (IdentThenParen(tokens, k) /\ ~Balanced(tokens, k)) =>
                  /\ result # << >>
                  /\ result[Len(result)] = Composite(tokens, k, Len(tokens))
                  /\ \A j \in 1..(Len(result) - 1) : Before(result[j], tokens[k])
        /\ code = UnbalancedFoo =>
              result = << Token("FUNCTION_CALL",
                                <<"f","o","o","(","a",",","(","b",")">>,
                                1, 1, Filename) >>

\* foo(a, (b) has been tokenized: the call at the first of its seven raw tokens
\* is never closed.
C5_UnclosedReached ==
    /\ Done
    /\ code = UnbalancedFoo
    /\ Len(tokens) = 7
    /\ IdentThenParen(tokens, 1)
    /\ ~Balanced(tokens, 1)
    /\ paren_count > 0
    /\ Len(result) = 1

(***************************************************************************)
(* C6: in every state the raw tokens have lines and columns from 1, each   *)
(* is the text it covers, each ends before the next begins, and they are   *)
(* non-decreasing in (line, column); the merged list, while it is built    *)
(* and when it is returned, has lines and columns from 1 and is            *)
(* non-decreasing in (line, column).                                       *)
(***************************************************************************)
C6_Ordering ==
    /\ PositionsFromOne(tokens)
    /\ NonDecreasing(tokens)
    /\ \A k \in 1..Len(tokens) :
          /\ tokens[k].line <= Len(LineStarts(code))
          /\ Len(tokens[k].value) >= 1
          /\ tokens[k].value =
                SubSeq(code, OffsetOf(tokens[k]) + 1,
                       OffsetOf(tokens[k]) + Len(tokens[k].value))
          /\ k < Len(tokens) =>
                OffsetOf(tokens[k]) + Len(tokens[k].value)
                    <= OffsetOf(tokens[k + 1])
    /\ PositionsFromOne(combined)
    /\ NonDecreasing(combined)
    /\ PositionsFromOne(result)
    /\ NonDecreasing(result)

\* A text of several lines whose call has been merged.
C6_MergedOnLaterLines ==
    /\ Done
    /\ code = StringAndDirectives
    /\ \E k \in 1..Len(result) : result[k].type = "FUNCTION_CALL"
    /\ \E k \in 1..Len(result) : result[k].line > 1 /\ result[k].column > 1
    /\ Len(result) < Len(tokens)


(***************************************************************************)
(* C7: when the scanner has finished, every raw token has the type of the  *)
(* earliest declared pattern that matches at the token's offset and is     *)
(* that pattern's match there, whatever a later pattern would match; the   *)
(* text a++b gives IDENTIFIER a, OPERATOR_2CHAR ++, IDENTIFIER b.          *)
(***************************************************************************)
C7_DeclarationOrder ==
    JustScanned =>
        /\ \A k \in 1..Len(tokens) :
              /\ \E r \in 1..Len(PatternOrder) : PatternOrder[r] = tokens[k].type
              /\ PatternLen(tokens[k].type, code, OffsetOf(tokens[k]))
                    = Len(tokens[k].value)
              /\ \A r \in 1..(RankOf(tokens[k].type) - 1) :
                    PatternLen(PatternOrder[r], code, OffsetOf(tokens[k])) = 0
        /\ code = APlusPlusB =>
              /\ Len(tokens) = 3
              /\ tokens[1].type = "IDENTIFIER" /\ tokens[1].value = <<"a">>
              /\ tokens[2].type = "OPERATOR_2CHAR"
              /\ tokens[2].value = <<"+","+">>
              /\ tokens[3].type = "IDENTIFIER" /\ tokens[3].value = <<"b">>

\* A token where a later pattern matches a longer lexeme: std is scanned as
\* an IDENTIFIER where NAMESPACE matches std::sort.
C7_LongerLaterPattern ==
    /\ JustScanned
    /\ code = StdSortCall
    /\ tokens[1].type = "IDENTIFIER"
    /\ RankOf("NAMESPACE") > RankOf("IDENTIFIER")
    /\ MatchNamespace(code, 0) > Len(tokens[1].value)

\* What one step of tokenize does to the scanner's cursor and the merger's
\* index: every iteration of the scan loop moves the cursor forward within
\* the text, every iteration of the outer merge loop that goes on and every
\* iteration of the inner loop moves the index forward within the list.
C8_Advance ==
    /\ (pc = "scan" /\ pc' = "body") => (pos' > pos /\ pos' <= Len(code))
    /\ pc = "body" => (pc' = "scan" /\ pos' = pos)
    /\ (pc = "merge" /\ pc' \in {"merge", "collect"}) =>
          (i' > i /\ i' <= Len(tokens))
    /\ (pc = "collect" /\ pc' = "collect") => (i' > i /\ i' <= Len(tokens))
    /\ (pc = "collect" /\ pc' = "merge") => i' = i
    /\ pc' = "done" => Len(result') <= Len(tokens)

(***************************************************************************)
(* C8: every step of tokenize advances the scanner's cursor or the merge   *)
(* index as C8_Advance says, and tokenize eventually returns.              *)
(***************************************************************************)
C8_Terminates == [][C8_Advance]_vars /\ <>Done

\* tokenize has returned for a text with an unterminated string and an
\* unclosed call.
C8_MalformedReturned ==
    /\ Done
    /\ code = MalformedCall
    /\ Len(tokens) = 5
    /\ Len(result) = 1
    /\ paren_count > 0

\* What the merge pass returns for the run starting at k.
RunOutput(ts, k) ==
    IF IdentThenParen(ts, k) THEN Composite(ts, k, RunEnd(ts, k)) ELSE ts[k]

(***************************************************************************)
(* C9: what combine_function_calls returns has one token per run of its    *)
(* argument: for a call that is closed, the FUNCTION_CALL made of the      *)
(* lexemes from the identifier through the ")" that returns the depth to   *)
(* 0, positioned at the identifier, and for a token that starts no call    *)
(* the token itself; and no step changes the argument list.                *)
(***************************************************************************)
C9_BalancedMerge ==
    /\ [](Done =>
            /\ Len(result) = Len(RunStarts(tokens, 1))
            /\ \A j \in 1..Len(result) :
                  (~IdentThenParen(tokens, RunStarts(tokens, 1)[j])
                   \/ Balanced(tokens, RunStarts(tokens, 1)[j])) =>
                      result[j] = RunOutput(tokens, RunStarts(tokens, 1)[j]))
    /\ [][tokens' = tokens]_vars

\* A closed call with a call nested in it, followed by another token.
C9_NestedThenMore ==
    /\ Done
    /\ Len(tokens) >= 7
    /\ IdentThenParen(tokens, 1)
    /\ IdentThenParen(tokens, 3)
    /\ ClosesAt(tokens, 1, 6)
    /\ Len(result) = 2
    /\ result[1].type = "FUNCTION_CALL"
    /\ result[2] = tokens[7]

(***************************************************************************)
(* C10: in every state no problem is a "Direct call to" problem and no     *)
(* raw IDENTIFIER token's lexeme contains "(".                             *)
(***************************************************************************)
C10_NoDirectCall ==
    /\ \A j \in 1..Len(problems) : ~MentionsDirectCall(problems[j])
    /\ \A k \in 1..Len(tokens) :
          tokens[k].type = "IDENTIFIER" => ~Contains(tokens[k].value, <<"(">>)

\* printf("x") has been tokenized: the call is merged and nothing is reported.
C10_PrintfUnreported ==
    /\ Done
    /\ code = PrintfCall
    /\ problems = << >>
    /\ Len(result) = 1
    /\ result[1].type = "FUNCTION_CALL"
    /\ BeforeParen(result[1].value) \in RestrictedNames

=============================================================================
